---- MODULE Spec2Model ----
(***************************************************************************)
(* Model of the cricket league backend (Django models, DRF serializers and *)
(* views).  The database rows are the variables team, player, usr and      *)
(* match.  Django keeps no identity map: every object loaded from the      *)
(* database is a separate in-memory copy of its row, and Model.save()      *)
(* writes every field of the copy it is called on.  Match.save works on    *)
(* several such copies, so the model carries a heap of team objects        *)
(* addressed by reference.                                                 *)
(***************************************************************************)
EXTENDS Integers, FiniteSets, Sequences, TLC

\* ------------------------------------------------------------------ bounds
MaxOps == 3          \* number of requests / calls in one behaviour
MaxMatches == 2      \* number of match rows that can be created

\* ------------------------------------------------------- program constants
PlayingXI == 11      \* playing-XI cap of PlayerProfile.clean
WinPoints == 2       \* points per win in Team.update_points

\* -------------------------------------------------------------- universes
None == "none"       \* Python None / SQL NULL
Absent == "absent"   \* key not present in the request data
AbsentNum == -1      \* the same, for a numeric field
NoSuchId == "Z"      \* a primary key no row has
NoPk == 0            \* self.pk of an instance not saved yet (None)

Teams == {"A", "B", "C"}
\* player profile slots: P1..P3 are the profiles of the fixtures, the others
\* make up a full playing XI
Players == {"P1", "P2", "P3", "P4", "P5", "P6", "P7", "P8", "P9", "P10",
            "P11", "P12", "P13"}
CaptainUsers == {"U1", "U2"}
PlayerUsers == {"U" \o p : p \in Players}
Users == CaptainUsers \cup PlayerUsers
Matches == 1..MaxMatches

\* RoleEnum of permissions.py / CATEGORY_CHOICES of CustomUser
RoleEnum == {"ADMIN", "ORGANISER", "CAPTAIN", "PLAYER"}

\* references to in-memory Team objects: the objects a Python caller holds
\* (one per team, named by the team), the objects a serializer loads for the
\* request (f1, f2, fw) and the objects loaded with old_match (o1, o2, ow)
Refs == Teams \cup {"f1", "f2", "fw", "o1", "o2", "ow"}
NoObj == [id |-> None]

NoMatch == [team1 |-> None, team2 |-> None, winner |-> None]

\* two requests served at the same time (threads or worker processes)
Procs == {"r1", "r2"}
NoReq == [kind |-> "none"]

\* the slot of a team row that does not exist (never created, or deleted)
NoTeam ==
  [id |-> None, matches_played |-> 0, wins |-> 0, lost |-> 0, draw |-> 0,
   points |-> 0, captain |-> None]

VARIABLES
  team,      \* Team rows: id, matches_played, wins, lost, draw, points, captain
  player,    \* PlayerProfile rows
  usr,       \* CustomUser.category per user
  match,     \* Match rows (NoMatch: no such row)
  held,      \* Team objects a Python caller holds across calls (tests)
  heldMatch, \* matches whose Match instance the caller holds, bound to held
  ops,       \* number of operations so far
  last,      \* the last operation and its outcome
  pending    \* per concurrent request: what it has loaded and not yet saved

vars == <<team, player, usr, match, held, heldMatch, ops, last, pending>>

\* a subtraction that does not saturate
Max0_unsaturated(x) == x

Max0(x) == IF x > 0 THEN x ELSE 0    \* max(0, x)

\* ----------------------------------------------------------- the machine
\* M: the rows, the heap of team objects and whether an exception is pending
Machine(hp) ==
  [team |-> team, player |-> player, usr |-> usr, match |-> match,
   heap |-> hp, ok |-> TRUE]

HeldHeap == [r \in Refs |-> IF r \in Teams THEN held[r] ELSE NoObj]

\* obj.<f> = v on the object behind ref (skipped once an exception is pending)
SetField(M, ref, f, v) ==
  IF ~M.ok THEN M ELSE [M EXCEPT !.heap[ref][f] = v]

\* first access of a foreign-key attribute loads the row, later ones use the
\* cached object
Load(M, ref, id) ==
  IF ~M.ok \/ M.heap[ref] # NoObj THEN M ELSE [M EXCEPT !.heap[ref] = M.team[id]]

\* post_save receiver: every CAPTAIN user who captains no team becomes PLAYER
ensure_captain_has_team(M) ==
  [u \in Users |->
     IF M.usr[u] = "CAPTAIN" /\ ~\E t \in Teams : M.team[t].captain = u
     THEN "PLAYER" ELSE M.usr[u]]

\* a clean that does not look at the captain's category
TeamCleanOk_anyrole(M, o) ==
  \/ o.captain = None
  \/ ~\E t \in Teams \ {o.id} : M.team[t].captain = o.captain

\* a clean that does not look at the other teams
TeamCleanOk_shared(M, o) ==
  o.captain = None \/ M.usr[o.captain] = "CAPTAIN"

\* Team.full_clean: the captain is a CAPTAIN user who captains no other team
TeamCleanOk(M, o) ==
  \/ o.captain = None
  \/ /\ M.usr[o.captain] = "CAPTAIN"
     /\ ~\E t \in Teams \ {o.id} : M.team[t].captain = o.captain

\* a save that changes no user: no post_save receiver, no demotion
TeamSave_nodemote(M, ref) ==
  IF ~M.ok THEN M
  ELSE IF /\ M.heap[ref].id # None /\ TeamCleanOk(M, M.heap[ref])
          /\ M.team[M.heap[ref].id] # NoTeam
       THEN [M EXCEPT !.team[M.heap[ref].id] = M.heap[ref]]
       ELSE [M EXCEPT !.ok = FALSE]

\* Team.save on the object behind ref: validate, load the old row (DoesNotExist
\* when it was deleted), write EVERY field of the object over the row, run the
\* post_save receiver, demote a replaced captain
TeamSave(M, ref) ==
  IF ~M.ok THEN M
  ELSE LET o == M.heap[ref]
           old_captain == M.team[o.id].captain
           M1 == [M EXCEPT !.team[o.id] = o]
           M2 == [M1 EXCEPT !.usr = ensure_captain_has_team(M1)]
           M3 == IF old_captain # None /\ old_captain # o.captain
                 THEN [M2 EXCEPT !.usr[old_captain] = "PLAYER"]
                 ELSE M2
       IN IF o.id # None /\ TeamCleanOk(M, o) /\ M.team[o.id] # NoTeam
          THEN M3 ELSE [M EXCEPT !.ok = FALSE]

\* update_points that saves without recomputing points
update_points_stale(M, ref) == TeamSave(M, ref)

\* Team.update_points: points = wins * 2 + draw, then save
update_points(M, ref) ==
  IF ~M.ok THEN M
  ELSE TeamSave(SetField(M, ref, "points",
                  (M.heap[ref].wins * WinPoints) + M.heap[ref].draw), ref)

\* a query without the is_playing filter
ActivePlayers_all(M, t) == {p \in Players : M.player[p].team = t}

\* team.players.filter(is_playing=True)
ActivePlayers(M, t) ==
  {p \in Players : M.player[p].team = t /\ M.player[p].is_playing}

\* a clean without the playing-XI check
PlayerCleanOk_nocap(M, o) == M.usr[o.user] = "PLAYER"

\* PlayerProfile.clean
PlayerCleanOk(M, o) ==
  /\ M.usr[o.user] = "PLAYER"
  /\ ~(o.is_playing /\ Cardinality(ActivePlayers(M, o.team)) >= PlayingXI)

\* a save that skips full_clean
PlayerSave_unchecked(M, p, o) ==
  IF ~M.ok THEN M ELSE [M EXCEPT !.player[p] = o]

\* PlayerProfile.save of object o of player p
PlayerSave(M, p, o) ==
  IF ~M.ok THEN M
  ELSE IF PlayerCleanOk(M, o) THEN [M EXCEPT !.player[p] = o]
       ELSE [M EXCEPT !.ok = FALSE]

\* a loop that also zeroes the other statistics of the profile it saves
RECURSIVE SavePlayers_zeroed(_, _, _, _)
SavePlayers_zeroed(M, snap, ps, d) ==
  IF ps = {} THEN M
  ELSE LET p == CHOOSE q \in ps : TRUE
       IN SavePlayers_zeroed(
            PlayerSave(M, p,
              [snap[p] EXCEPT !.matches_played =
                                 IF d < 0 THEN Max0(@ + d) ELSE @ + d,
                              !.total_runs = 0, !.wickets = 0]),
            snap, ps \ {p}, d)

\* for player in <list>: change matches_played of the loaded object snap[p]
\* and save it: max(0, matches_played - 1) in the revert loop (d = -1),
\* matches_played += 1 in the apply loops (d = 1)
RECURSIVE SavePlayers(_, _, _, _)
SavePlayers(M, snap, ps, d) ==
  IF ps = {} THEN M
  ELSE LET p == CHOOSE q \in ps : TRUE
       IN SavePlayers(
            PlayerSave(M, p,
              [snap[p] EXCEPT !.matches_played =
                                 IF d < 0 THEN Max0(@ + d) ELSE @ + d]),
            snap, ps \ {p}, d)

\* ------------------------------------------------------------ Match.save
\* inst is the Match instance being saved: pk (NoPk when new), the foreign
\* keys team1_id, team2_id, winner_id and the references t1, t2, w of the
\* objects behind self.team1, self.team2, self.winner.

\* lines 116-122: old_match with select_related: three separate objects
LoadOld(M, old) ==
  [M EXCEPT !.heap["o1"] = M.team[old.team1],
            !.heap["o2"] = M.team[old.team2],
            !.heap["ow"] = IF old.winner = None THEN NoObj
                           ELSE M.team[old.winner]]

\* lines 128-154: revert the previous statistics; snap holds the player
\* objects listed before the match row was written
RevertStats(M, old, snap) ==
  LET R1 == SetField(M, "o1", "matches_played",
                     Max0(M.heap["o1"].matches_played - 1))
      R2 == SetField(R1, "o2", "matches_played",
                     Max0(R1.heap["o2"].matches_played - 1))
      listed == [M EXCEPT !.player = snap]
      oldPlayers == ActivePlayers(listed, old.team1)
                      \cup ActivePlayers(listed, old.team2)
      R3 == SavePlayers(R2, snap, oldPlayers, -1)
      loser == IF old.winner = old.team1 THEN "o2" ELSE "o1"
      W1 == SetField(R3, "ow", "wins", Max0(R3.heap["ow"].wins - 1))
      W2 == SetField(W1, loser, "lost", Max0(W1.heap[loser].lost - 1))
      W3 == update_points(W2, "ow")
      W4 == update_points(W3, loser)
      W5 == TeamSave(TeamSave(W4, "ow"), loser)
      D1 == SetField(R3, "o1", "draw", Max0(R3.heap["o1"].draw - 1))
      D2 == SetField(D1, "o2", "draw", Max0(D1.heap["o2"].draw - 1))
      D3 == update_points(D2, "o1")
      D4 == update_points(D3, "o2")
      D5 == TeamSave(TeamSave(D4, "o1"), "o2")
  IN IF ~M.ok THEN M
     ELSE IF old.winner # None THEN W5 ELSE D5

\* lines 156-189: apply the new statistics
ApplyStats(M, inst) ==
  LET A0 == Load(M, inst.t1, inst.team1_id)
      A1 == SetField(A0, inst.t1, "matches_played",
                     A0.heap[inst.t1].matches_played + 1)
      A2 == Load(A1, inst.t2, inst.team2_id)
      A3 == SetField(A2, inst.t2, "matches_played",
                     A2.heap[inst.t2].matches_played + 1)
      A4 == SavePlayers(A3, A3.player, ActivePlayers(A3, inst.team1_id), 1)
      A5 == SavePlayers(A4, A4.player, ActivePlayers(A4, inst.team2_id), 1)
      loser == IF inst.winner_id = inst.team1_id THEN inst.t2 ELSE inst.t1
      W0 == Load(A5, inst.w, inst.winner_id)
      W1 == SetField(W0, inst.w, "wins", W0.heap[inst.w].wins + 1)
      W2 == SetField(W1, loser, "lost", W1.heap[loser].lost + 1)
      W3 == update_points(W2, inst.w)
      W4 == update_points(W3, loser)
      W5 == TeamSave(TeamSave(W4, inst.w), loser)
      D1 == SetField(A5, inst.t1, "draw", A5.heap[inst.t1].draw + 1)
      D2 == SetField(D1, inst.t2, "draw", D1.heap[inst.t2].draw + 1)
      D3 == update_points(D2, inst.t1)
      D4 == update_points(D3, inst.t2)
      D5 == TeamSave(TeamSave(D4, inst.t1), inst.t2)
      E == IF inst.winner_id # None THEN W5 ELSE D5
  IN IF ~M.ok THEN M
     ELSE TeamSave(TeamSave(E, inst.t1), inst.t2)

\* the primary key the database gives a new row
NewPk(M) == CHOOSE m \in Matches :
              /\ M.match[m] = NoMatch
              /\ \A k \in Matches : k < m => M.match[k] # NoMatch

\* Match.save, lines 102-189
MatchSave(M, inst) ==
  LET is_new == inst.pk = NoPk
      pk == IF is_new THEN NewPk(M) ELSE inst.pk
      old == IF is_new THEN NoMatch ELSE M.match[inst.pk]
      M1 == IF is_new THEN M ELSE LoadOld(M, old)
      snap == M1.player
      \* line 125: the match row itself
      M2 == [M1 EXCEPT !.match[pk] = [team1 |-> inst.team1_id,
                                      team2 |-> inst.team2_id,
                                      winner |-> inst.winner_id]]
      M3 == IF is_new THEN M2 ELSE RevertStats(M2, old, snap)
  IN ApplyStats(M3, inst)

\* ------------------------------------------------------------------- Init
\* The database after the fixtures: three teams with zeroed counters, team A
\* captained by U1, a registered CAPTAIN user U2 without team, and three
\* player profiles (P1 active on A, P2 active on B, P3 on A's bench).  The
\* caller's Team objects are the ones the rows were created from.
TeamRow(t) ==
  [id |-> t, matches_played |-> 0, wins |-> 0, lost |-> 0, draw |-> 0,
   points |-> 0, captain |-> IF t = "A" THEN "U1" ELSE None]

\* the slot of a profile that does not exist (its user has no profile)
NoPlayer(p) ==
  [user |-> "U" \o p, team |-> None, is_playing |-> FALSE,
   matches_played |-> 0, total_runs |-> 0, wickets |-> 0]

PlayerRow(p) ==
  IF p \notin {"P1", "P2", "P3"} THEN NoPlayer(p)
  ELSE [user |-> "U" \o p,
        team |-> IF p = "P2" THEN "B" ELSE "A",
        is_playing |-> p # "P3",
        matches_played |-> 0, total_runs |-> 0, wickets |-> 0]

Init ==
  /\ team = [t \in Teams |-> TeamRow(t)]
  /\ player = [p \in Players |-> PlayerRow(p)]
  /\ usr = [u \in Users |-> IF u \in CaptainUsers THEN "CAPTAIN" ELSE "PLAYER"]
  /\ match = [m \in Matches |-> NoMatch]
  /\ held = [t \in Teams |-> TeamRow(t)]
  /\ heldMatch = {}
  /\ ops = 0
  /\ last = [op |-> "init", status |-> 0]
  /\ pending = [q \in Procs |-> NoReq]

\* The database when team A fields a full playing XI: P1..P11 play for A, P12
\* is on A's bench and the user of P13 has no profile yet.
RosterRow(p) ==
  IF p = "P13" THEN NoPlayer(p)
  ELSE [NoPlayer(p) EXCEPT !.team = "A", !.is_playing = (p # "P12")]

InitRoster ==
  /\ team = [t \in Teams |-> TeamRow(t)]
  /\ player = [p \in Players |-> RosterRow(p)]
  /\ usr = [u \in Users |-> IF u \in CaptainUsers THEN "CAPTAIN" ELSE "PLAYER"]
  /\ match = [m \in Matches |-> NoMatch]
  /\ held = [t \in Teams |-> TeamRow(t)]
  /\ heldMatch = {}
  /\ ops = 0
  /\ last = [op |-> "init", status |-> 0]
  /\ pending = [q \in Procs |-> NoReq]

\* The fixtures with a profile that has statistics of its own: P1 has
\* scored 100 runs and taken 10 wickets (the values of tests.py:256-257)
SquadRow(p) ==
  IF p = "P1" THEN [PlayerRow(p) EXCEPT !.total_runs = 100, !.wickets = 10]
  ELSE PlayerRow(p)

InitSquad ==
  /\ team = [t \in Teams |-> TeamRow(t)]
  /\ player = [p \in Players |-> SquadRow(p)]
  /\ usr = [u \in Users |-> IF u \in CaptainUsers THEN "CAPTAIN" ELSE "PLAYER"]
  /\ match = [m \in Matches |-> NoMatch]
  /\ held = [t \in Teams |-> TeamRow(t)]
  /\ heldMatch = {}
  /\ ops = 0
  /\ last = [op |-> "init", status |-> 0]
  /\ pending = [q \in Procs |-> NoReq]

\* ---------------------------------------------------------------- commit
\* a block without transaction: the rows written before the exception stay
Commit_no_rollback(M, op, okStatus, errStatus) ==
  /\ team' = M.team
  /\ player' = M.player
  /\ usr' = M.usr
  /\ match' = M.match
  /\ held' = [t \in Teams |-> M.heap[t]]
  /\ last' = [op |-> op, status |-> IF M.ok THEN okStatus ELSE errStatus]
  /\ ops' = ops + 1
  /\ pending' = pending

\* transaction.atomic: the rows of M on success, the rows as they were when
\* an exception left the block.  Objects in memory keep what was assigned.
Commit(M, op, okStatus, errStatus) ==
  /\ team' = IF M.ok THEN M.team ELSE team
  /\ player' = IF M.ok THEN M.player ELSE player
  /\ usr' = IF M.ok THEN M.usr ELSE usr
  /\ match' = IF M.ok THEN M.match ELSE match
  /\ held' = [t \in Teams |-> M.heap[t]]
  /\ last' = [op |-> op, status |-> IF M.ok THEN okStatus ELSE errStatus]
  /\ ops' = ops + 1
  /\ pending' = pending

\* a request answered without touching the database 
Respond(op, status) ==
  /\ last' = [op |-> op, status |-> status]
  /\ ops' = ops + 1
  /\ UNCHANGED <<team, player, usr, match, held, heldMatch, pending>>

\* a decorator that lets every role through
role_required_open(role, allowed) == TRUE

\* role_required: the view runs only for an allowed role
role_required(role, allowed) == role \in allowed

\* PrimaryKeyRelatedField(queryset=Team.objects.all()): the key names a row
TeamKeyOk(k) == k \in Teams /\ team[k] # NoTeam

\* -------------------------------------------------------------- MatchView
\* inputs of the match requests
CreatePairs == {<<"A", "B">>, <<"B", "A">>, <<"A", "C">>, <<"A", "A">>}
WinnerInputs == Teams \cup {None}

\* a validate with the check of distinct teams switched on
validate_distinct(t1, t2) == t1 # t2

\* MatchSerializer.validate: returns the data as it is, equal teams included
validate(t1, t2) == TRUE

\* POST /matches/ : MatchSerializer loads team1, team2 and winner as three
\* separate objects and Match.objects.create saves the new instance
MatchPost(role, t1, t2, w) ==
  /\ ops < MaxOps
  /\ IF ~role_required(role, {"ADMIN", "ORGANISER"})
     THEN Respond("match_post", 403)
     ELSE IF ~( /\ TeamKeyOk(t1) /\ TeamKeyOk(t2) /\ (w = None \/ TeamKeyOk(w))
                /\ validate(t1, t2) )
     THEN Respond("match_post", 400)
     ELSE /\ \E m \in Matches : match[m] = NoMatch
          /\ LET M0 == Machine([HeldHeap EXCEPT
                         !["f1"] = team[t1], !["f2"] = team[t2],
                         !["fw"] = IF w = None THEN NoObj ELSE team[w]])
                 inst == [pk |-> NoPk, team1_id |-> t1, team2_id |-> t2,
                          winner_id |-> w, t1 |-> "f1", t2 |-> "f2", w |-> "fw"]
                 M == MatchSave(M0, inst)
             IN /\ Commit(M, "match_post", 201, 500)
                /\ heldMatch' = heldMatch

\* PUT /matches/<id>/ : partial update.  The serializer loads an object for
\* every key of the request and assigns it to the freshly loaded instance;
\* a foreign key the request leaves out is loaded on first access inside
\* Match.save.  Any exception is answered 500.
PutTeam1Inputs == {Absent, "A", "C"}
PutTeam2Inputs == {Absent, "B"}

MatchPut(role, m, t1, t2, w) ==
  /\ ops < MaxOps
  /\ IF ~role_required(role, {"ADMIN", "ORGANISER"})
     THEN Respond("match_put", 403)
     ELSE IF match[m] = NoMatch
     THEN Respond("match_put", 404)
     ELSE IF ~( /\ (t1 = Absent \/ TeamKeyOk(t1))
                /\ (t2 = Absent \/ TeamKeyOk(t2))
                /\ (w \in {Absent, None} \/ TeamKeyOk(w))
                /\ validate(t1, t2) )
     THEN Respond("match_put", 400)
     ELSE LET M0 == Machine([HeldHeap EXCEPT
                       !["f1"] = IF t1 = Absent THEN NoObj ELSE team[t1],
                       !["f2"] = IF t2 = Absent THEN NoObj ELSE team[t2],
                       !["fw"] = IF w \in {Absent, None} THEN NoObj
                                 ELSE team[w]])
              inst == [pk |-> m,
                       team1_id |-> IF t1 = Absent THEN match[m].team1 ELSE t1,
                       team2_id |-> IF t2 = Absent THEN match[m].team2 ELSE t2,
                       winner_id |-> IF w = Absent THEN match[m].winner ELSE w,
                       t1 |-> "f1", t2 |-> "f2", w |-> "fw"]
              M == MatchSave(M0, inst)
          IN /\ Commit(M, "match_put", 200, 500)
             \* the caller's instance of this match, if any, is out of date
             /\ heldMatch' = heldMatch \ {m}

\* DELETE /matches/<id>/ : match.delete() removes the row and nothing else
\* (Match has no delete override and no receiver listens to its deletion)
MatchDelete(role, m) ==
  /\ ops < MaxOps
  /\ IF ~role_required(role, {"ADMIN", "ORGANISER"})
     THEN Respond("match_delete", 403)
     ELSE IF match[m] = NoMatch
     THEN Respond("match_delete", 404)
     ELSE /\ match' = [match EXCEPT ![m] = NoMatch]
          /\ heldMatch' = heldMatch \ {m}
          /\ last' = [op |-> "match_delete", status |-> 200]
          /\ ops' = ops + 1
          /\ UNCHANGED <<team, player, usr, held, pending>>

\* the match requests of every role: creations of A and B against each other
\* and against themselves, updates of the winner, deletions
MatchViewNext ==
  \/ \E role \in RoleEnum, t1 \in {"A", "B"}, t2 \in {"A", "B"},
        w \in {None, "A", "B"} :
        MatchPost(role, t1, t2, w)
  \/ \E role \in RoleEnum, m \in Matches, w \in {Absent, None, "A"} :
        MatchPut(role, m, Absent, Absent, w)
  \/ \E role \in RoleEnum, m \in Matches : MatchDelete(role, m)

\* ------------------------------------------------ calls on the model layer
\* Match.objects.create(team1=..., team2=..., winner=...) with the Team
\* objects the caller holds: self.winner IS self.team1 or self.team2 when it
\* names the same team (tests.py setUp, populate_db).  Status 0: returned,
\* 1: ValidationError raised.
ModelCreate(t1, t2, w) ==
  /\ ops < MaxOps
  /\ \E m \in Matches : match[m] = NoMatch
  /\ LET M0 == Machine(HeldHeap)
         inst == [pk |-> NoPk, team1_id |-> t1, team2_id |-> t2,
                  winner_id |-> w, t1 |-> t1, t2 |-> t2, w |-> w]
         M == MatchSave(M0, inst)
     IN /\ Commit(M, "model_create", 0, 1)
        /\ heldMatch' = IF M.ok THEN heldMatch \cup {NewPk(M0)} ELSE heldMatch

\* match.winner = <held team or None>; match.save() on a held instance
ModelSave(m, w) ==
  /\ ops < MaxOps
  /\ m \in heldMatch
  /\ LET M0 == Machine(HeldHeap)
         inst == [pk |-> m, team1_id |-> match[m].team1,
                  team2_id |-> match[m].team2, winner_id |-> w,
                  t1 |-> match[m].team1, t2 |-> match[m].team2, w |-> w]
         M == MatchSave(M0, inst)
     IN /\ Commit(M, "model_save", 0, 1)
        /\ heldMatch' = IF M.ok THEN heldMatch ELSE heldMatch \ {m}

\* team.refresh_from_db() on a held Team object
RefreshFromDb(t) ==
  /\ ops < MaxOps
  /\ team[t] # NoTeam
  /\ held' = [held EXCEPT ![t] = team[t]]
  /\ last' = [op |-> "refresh", status |-> 0]
  /\ ops' = ops + 1
  /\ UNCHANGED <<team, player, usr, match, heldMatch, pending>>

\* --------------------------------------------------------------- TeamView
\* No transaction wraps a team request: rows written before an exception stay
CommitNoTx(M, op, okStatus, errStatus) ==
  /\ team' = M.team
  /\ player' = M.player
  /\ usr' = M.usr
  /\ match' = M.match
  /\ held' = [t \in Teams |-> M.heap[t]]
  /\ last' = [op |-> op, status |-> IF M.ok THEN okStatus ELSE errStatus]
  /\ ops' = ops + 1
  /\ pending' = pending

\* TeamSerializer.captain and validate_captain: the key names a CAPTAIN user
\* who captains no team other than the one being written
CaptainKeyOk(c, t) ==
  \/ c \in {Absent, None}
  \/ /\ c \in Users
     /\ usr[c] = "CAPTAIN"
     /\ ~\E o \in Teams \ {t} : team[o].captain = c

\* for other_team in Team.objects.filter(captain=c).exclude(id=t):
\*     other_team.captain = None; other_team.save()
RECURSIVE ClearCaptainOf(_, _, _)
ClearCaptainOf(M, c, ts) ==
  IF ts = {} \/ ~M.ok THEN M
  ELSE LET o == CHOOSE x \in ts : TRUE
           M1 == [M EXCEPT !.heap["f2"] = [M.team[o] EXCEPT !.captain = None]]
       IN ClearCaptainOf(TeamSave(M1, "f2"), c, ts \ {o})

\* TeamSerializer.update on the freshly loaded team: data holds a value or
\* Absent / AbsentNum for each writable field of the serializer
TeamSerializerUpdate(M, t, data) ==
  LET old_captain == M.team[t].captain
      new_captain == IF data.captain = Absent THEN old_captain ELSE data.captain
      obj == [M.team[t] EXCEPT
                !.wins = IF data.wins = AbsentNum THEN @ ELSE data.wins,
                !.draw = IF data.draw = AbsentNum THEN @ ELSE data.draw,
                !.points = IF data.points = AbsentNum THEN @ ELSE data.points,
                !.captain = new_captain]
      M1 == TeamSave([M EXCEPT !.heap["f1"] = obj], "f1")
      M2 == IF M1.ok /\ old_captain # None /\ old_captain # new_captain
            THEN [M1 EXCEPT !.usr[old_captain] = "PLAYER"]
            ELSE M1
      others == {o \in Teams \ {t} : M2.team[o].captain = new_captain}
  IN IF new_captain # None THEN ClearCaptainOf(M2, new_captain, others) ELSE M2

\* PUT /teams/<id>/
TeamPut(role, t, data) ==
  /\ ops < MaxOps
  /\ IF ~role_required(role, {"ADMIN", "ORGANISER"})
     THEN Respond("team_put", 403)
     ELSE IF team[t] = NoTeam
     THEN Respond("team_put", 404)
     ELSE IF ~CaptainKeyOk(data.captain, t)
     THEN Respond("team_put", 400)
     ELSE /\ CommitNoTx(TeamSerializerUpdate(Machine(HeldHeap), t, data),
                        "team_put", 200, 500)
          /\ heldMatch' = heldMatch

\* team.wins = w; team.draw = d; team.save() on a held Team object
\* (tests.py test_team_points_calculation)
HeldTeamSave(t, w, d) ==
  /\ ops < MaxOps
  /\ LET M0 == Machine([HeldHeap EXCEPT ![t].wins = w, ![t].draw = d])
     IN CommitNoTx(TeamSave(M0, t), "team_save", 0, 1)
  /\ heldMatch' = heldMatch

\* inputs of the team writes
TeamData ==
  [wins : {AbsentNum, 2}, draw : {AbsentNum, 1}, points : {AbsentNum, 7},
   captain : {Absent, None, "U1", "U2"}]

TeamNext ==
  \/ \E role \in {"ORGANISER", "PLAYER"}, t \in Teams, data \in TeamData :
        TeamPut(role, t, data)
  \/ \E t \in Teams, w \in {0, 2}, d \in {0, 1} : HeldTeamSave(t, w, d)

Requesters == {"ORGANISER", "PLAYER"}

\* ------------------------------------------------------------- PlayerView
\* JSON values of is_playing in a request
PlayingInputs == {Absent, "true", "false"}

\* POST /players/ : PlayerProfileSerializer checks that the user is a PLAYER
\* without profile and that the team exists; create() saves the new profile.
\* No handler catches the ValidationError of PlayerProfile.save: 500.
PlayerPost(role, p, t, playing) ==
  /\ ops < MaxOps
  /\ IF ~role_required(role, {"ADMIN", "ORGANISER", "CAPTAIN"})
     THEN Respond("player_post", 403)
     ELSE IF ~( /\ usr[player[p].user] = "PLAYER"
                /\ player[p].team = None
                /\ TeamKeyOk(t)
                /\ playing # Absent )
     THEN Respond("player_post", 400)
     ELSE LET o == [NoPlayer(p) EXCEPT !.team = t,
                                       !.is_playing = (playing = "true")]
          IN /\ CommitNoTx(PlayerSave(Machine(HeldHeap), p, o),
                           "player_post", 201, 500)
             /\ heldMatch' = heldMatch

\* PUT /players/<id>/ : partial update of team and is_playing; a PLAYER may
\* write only their own profile (own); the ValidationError of
\* PlayerProfile.save is answered 400
PlayerPut(role, own, p, t, playing) ==
  /\ ops < MaxOps
  /\ IF ~role_required(role, RoleEnum)
     THEN Respond("player_put", 403)
     ELSE IF player[p].team = None
     THEN Respond("player_put", 404)
     ELSE IF role = "PLAYER" /\ ~own
     THEN Respond("player_put", 403)
     ELSE IF ~(t = Absent \/ TeamKeyOk(t))
     THEN Respond("player_put", 400)
     ELSE LET o == [player[p] EXCEPT
                      !.team = IF t = Absent THEN @ ELSE t,
                      !.is_playing = IF playing = Absent THEN @
                                     ELSE (playing = "true")]
          IN /\ CommitNoTx(PlayerSave(Machine(HeldHeap), p, o),
                           "player_put", 200, 400)
             /\ heldMatch' = heldMatch

\* the profiles the requests write: one of the playing XI, the one on the
\* bench and the one to be created
RosterInputs == {"P1", "P12", "P13"}
PlayerRequesters ==
  {<<"ORGANISER", FALSE>>, <<"PLAYER", TRUE>>, <<"PLAYER", FALSE>>}

PlayerNext ==
  \/ \E role \in Requesters, p \in RosterInputs, t \in {"A", "B"},
        playing \in PlayingInputs \ {Absent} :
        PlayerPost(role, p, t, playing)
  \/ \E rq \in PlayerRequesters, p \in RosterInputs, t \in {Absent, "A", "B"},
        playing \in PlayingInputs :
        PlayerPut(rq[1], rq[2], p, t, playing)

\* ------------------------------------------- TeamView: create and delete
\* the slot of the row Team.objects.create inserts
NewTeamId(M) == CHOOSE t \in Teams : M.team[t] = NoTeam

\* Team.objects.create(captain=c): Team.save of an object without pk
TeamCreate(M, c) ==
  LET t == NewTeamId(M)
      o == [NoTeam EXCEPT !.id = t, !.captain = c]
      M1 == [M EXCEPT !.team[t] = o, !.heap["f1"] = o]
      M2 == [M1 EXCEPT !.usr = ensure_captain_has_team(M1)]
  IN IF TeamCleanOk(M, o) THEN M2 ELSE [M EXCEPT !.ok = FALSE]

\* TeamSerializer.create: create the team, then clear the captain of every
\* other team the new captain leads
TeamSerializerCreate(M, c) ==
  LET M1 == TeamCreate(M, c)
      t == NewTeamId(M)
      others == {o \in Teams \ {t} : M1.team[o].captain = c}
  IN IF M1.ok /\ c # None THEN ClearCaptainOf(M1, c, others) ELSE M1

\* POST /teams/ : captain is a required field of the serializer (null allowed)
TeamPost(role, c) ==
  /\ ops < MaxOps
  /\ IF ~role_required(role, {"ADMIN", "ORGANISER"})
     THEN Respond("team_post", 403)
     ELSE IF c = Absent \/ ~CaptainKeyOk(c, None)
     THEN Respond("team_post", 400)
     ELSE /\ \E t \in Teams : team[t] = NoTeam
          /\ CommitNoTx(TeamSerializerCreate(Machine(HeldHeap), c),
                        "team_post", 201, 500)
          /\ heldMatch' = heldMatch

\* a receiver that leaves the captain's category alone
revert_captain_noop(u, instance) == u

\* DELETE /teams/<id>/ : team.delete() cascades to the team's player profiles
\* and matches, nulls the winner of other matches, and the post_delete
\* receiver revert_captain_on_team_delete demotes the captain of the instance.
\* A Team object a caller still holds of the deleted row can no longer be
\* saved (Team.save raises DoesNotExist), also when the slot is taken by a
\* new row later: it becomes NoTeam.
revert_captain_on_team_delete(u, instance) ==
  IF instance.captain # None THEN [u EXCEPT ![instance.captain] = "PLAYER"]
  ELSE u

TeamDelete(role, t) ==
  /\ ops < MaxOps
  /\ IF ~role_required(role, {"ADMIN", "ORGANISER"})
     THEN Respond("team_delete", 403)
     ELSE IF team[t] = NoTeam
     THEN Respond("team_delete", 404)
     ELSE LET gone == {m \in Matches : t \in {match[m].team1, match[m].team2}}
          IN /\ team' = [team EXCEPT ![t] = NoTeam]
             /\ player' = [p \in Players |->
                             IF player[p].team = t THEN NoPlayer(p)
                             ELSE player[p]]
             /\ match' = [m \in Matches |->
                            IF m \in gone THEN NoMatch
                            ELSE IF match[m].winner = t
                            THEN [match[m] EXCEPT !.winner = None]
                            ELSE match[m]]
             /\ usr' = revert_captain_on_team_delete(usr, team[t])
             /\ heldMatch' = heldMatch \ gone
             /\ last' = [op |-> "team_delete", status |-> 200]
             /\ ops' = ops + 1
             /\ held' = [held EXCEPT ![t] = NoTeam]
             /\ pending' = pending

\* team.captain = c; team.save() on a held Team object (populate_db)
HeldCaptainSave(t, c) ==
  /\ ops < MaxOps
  /\ LET M0 == Machine([HeldHeap EXCEPT ![t].captain = c])
     IN CommitNoTx(TeamSave(M0, t), "captain_save", 0, 1)
  /\ heldMatch' = heldMatch

\* captain keys of the team requests: no key, null, the two registered
\* captains, a user of category PLAYER, a key of no user
CaptainInputs == {Absent, None, "U1", "U2", "UP1", NoSuchId}

CaptainData(c) ==
  [wins |-> AbsentNum, draw |-> AbsentNum, points |-> AbsentNum, captain |-> c]

CaptainNext ==
  \/ \E role \in Requesters, c \in CaptainInputs : TeamPost(role, c)
  \/ \E role \in Requesters, t \in Teams, c \in CaptainInputs :
        TeamPut(role, t, CaptainData(c))
  \/ \E role \in Requesters, t \in Teams : TeamDelete(role, t)
  \/ \E t \in Teams, c \in {None, "U1", "U2", "UP1"} : HeldCaptainSave(t, c)

\* ------------------------------------------------- concurrent requests
\* Nothing in the code takes a lock (no select_for_update, no F() update):
\* a request reads rows into objects and writes the objects back later, and
\* another request can run in between.
\*
\* POST /matches/, first half: serializer.is_valid() loads team1, team2 and
\* winner (views.py:168-169).  Only requests of valid data are followed.
MatchPostLoad(q, t1, t2, w) ==
  /\ ops < MaxOps
  /\ pending[q] = NoReq
  /\ TeamKeyOk(t1) /\ TeamKeyOk(t2) /\ (w = None \/ TeamKeyOk(w))
  /\ validate(t1, t2)
  /\ Cardinality({m \in Matches : match[m] = NoMatch})
       > Cardinality({r \in Procs : pending[r].kind = "match"})
  /\ pending' = [pending EXCEPT ![q] =
                   [kind |-> "match", t1 |-> t1, t2 |-> t2, w |-> w,
                    f1 |-> team[t1], f2 |-> team[t2],
                    fw |-> IF w = None THEN NoObj ELSE team[w]]]
  /\ ops' = ops + 1
  /\ UNCHANGED <<team, player, usr, match, held, heldMatch, last>>

\* second half: serializer.save() runs Match.save on the objects loaded
\* before; the atomic block of Match.save is taken as one step
MatchPostSave(q) ==
  /\ pending[q].kind = "match"
  /\ LET r == pending[q]
         M0 == Machine([HeldHeap EXCEPT
                 !["f1"] = r.f1, !["f2"] = r.f2, !["fw"] = r.fw])
         inst == [pk |-> NoPk, team1_id |-> r.t1, team2_id |-> r.t2,
                  winner_id |-> r.w, t1 |-> "f1", t2 |-> "f2", w |-> "fw"]
         M == MatchSave(M0, inst)
     IN /\ team' = IF M.ok THEN M.team ELSE team
        /\ player' = IF M.ok THEN M.player ELSE player
        /\ usr' = IF M.ok THEN M.usr ELSE usr
        /\ match' = IF M.ok THEN M.match ELSE match
        /\ last' = [op |-> "match_post", status |-> IF M.ok THEN 201 ELSE 500]
  /\ pending' = [pending EXCEPT ![q] = NoReq]
  /\ UNCHANGED <<held, heldMatch, ops>>

ConcurrentPairs == {<<"A", "B">>, <<"A", "C">>, <<"C", "B">>}

ConcurrentMatchNext ==
  \/ \E q \in Procs, pr \in ConcurrentPairs, w \in {None, "B", "C"} :
        w \in {None, pr[2]} /\ MatchPostLoad(q, pr[1], pr[2], w)
  \/ \E q \in Procs : MatchPostSave(q)

\* PUT /players/<id>/ as an organiser, first half: the view loads the
\* profile, the serializer assigns is_playing and PlayerProfile.save runs
\* full_clean (models.py:89); a failed check is answered 400
PlayerPutClean(q, p, playing) ==
  /\ ops < MaxOps
  /\ pending[q] = NoReq
  /\ player[p].team # None
  /\ LET o == [player[p] EXCEPT !.is_playing = (playing = "true")]
     IN IF PlayerCleanOk(Machine(HeldHeap), o)
        THEN /\ pending' = [pending EXCEPT ![q] =
                              [kind |-> "player", p |-> p, o |-> o]]
             /\ last' = last
        ELSE /\ pending' = pending
             /\ last' = [op |-> "player_put", status |-> 400]
  /\ ops' = ops + 1
  /\ UNCHANGED <<team, player, usr, match, held, heldMatch>>

\* second half: super().save() writes the row (models.py:90)
PlayerPutWrite(q) ==
  /\ pending[q].kind = "player"
  /\ player' = [player EXCEPT ![pending[q].p] = pending[q].o]
  /\ last' = [op |-> "player_put", status |-> 200]
  /\ pending' = [pending EXCEPT ![q] = NoReq]
  /\ UNCHANGED <<team, usr, match, held, heldMatch, ops>>

ConcurrentPlayerNext ==
  \/ \E q \in Procs, p \in {"P1", "P2", "P12"}, playing \in {"true", "false"} :
        PlayerPutClean(q, p, playing)
  \/ \E q \in Procs : PlayerPutWrite(q)

\* ------------------------------------------------------------------- Next

ApiMatchNext ==
  \/ \E role \in Requesters, pr \in CreatePairs,
        w \in WinnerInputs \cup {Absent, NoSuchId} :
        MatchPost(role, pr[1], pr[2], w)
  \/ \E role \in Requesters, m \in Matches, t1 \in PutTeam1Inputs,
        t2 \in PutTeam2Inputs, w \in WinnerInputs \cup {Absent, NoSuchId} :
        MatchPut(role, m, t1, t2, w)

ModelMatchNext ==
  \/ \E pr \in CreatePairs, w \in WinnerInputs : ModelCreate(pr[1], pr[2], w)
  \/ \E m \in Matches, w \in WinnerInputs : ModelSave(m, w)
  \/ \E t \in Teams : RefreshFromDb(t)

Next ==
  \/ ApiMatchNext \/ ModelMatchNext \/ TeamNext \/ PlayerNext \/ CaptainNext
  \/ MatchViewNext \/ ConcurrentMatchNext \/ ConcurrentPlayerNext

Spec == Init /\ [][Next]_vars

\* the API alone; the model layer alone
SpecApi == Init /\ [][ApiMatchNext]_vars
SpecModel == Init /\ [][ModelMatchNext]_vars

\* match writes through the API and the model layer
SpecMatch == Init /\ [][ApiMatchNext \/ ModelMatchNext]_vars

\* team writes next to match writes through the API
SpecTeam == Init /\ [][TeamNext \/ ApiMatchNext]_vars

\* player writes around a full playing XI
SpecPlayer == InitRoster /\ [][PlayerNext]_vars

\* the same next to match writes of an organiser: matches of B against the
\* full team A and against C, and updates that bring A in as team1
RosterPairs == {<<"B", "A">>, <<"B", "C">>}

RosterMatchNext ==
  \/ \E pr \in RosterPairs, w \in {None, "B"} :
        MatchPost("ORGANISER", pr[1], pr[2], w)
  \/ \E m \in Matches, t1 \in {Absent, "A"}, w \in {Absent, None} :
        MatchPut("ORGANISER", m, t1, Absent, w)

SpecRoster == InitRoster /\ [][PlayerNext \/ RosterMatchNext]_vars

\* player writes between the match writes of an organiser, from the fixtures
SpecSquad == InitSquad /\ [][PlayerNext \/ RosterMatchNext]_vars

\* team creations, captain assignments and team deletions
SpecCaptain == Init /\ [][CaptainNext]_vars

\* the match endpoint under every role
SpecMatchView == Init /\ [][MatchViewNext]_vars

\* two match creations at the same time; two player updates at the same
\* time around a full playing XI
SpecConcurrentMatch == Init /\ [][ConcurrentMatchNext]_vars
SpecConcurrentPlayer == InitRoster /\ [][ConcurrentPlayerNext]_vars

\* ---------------------------------------------- match writes of valid data
\* distinct team1 / team2 and a winner among {team1, team2, null}
ValidOutcome(t1, t2, w) == t1 # t2 /\ w \in {t1, t2, None}

ValidMatchNext ==
  \/ \E pr \in CreatePairs, w \in WinnerInputs :
        /\ ValidOutcome(pr[1], pr[2], w)
        /\ MatchPost("ORGANISER", pr[1], pr[2], w)
  \/ \E m \in Matches, t1 \in PutTeam1Inputs, t2 \in PutTeam2Inputs,
        w \in WinnerInputs \cup {Absent} :
        /\ match[m] # NoMatch
        /\ ValidOutcome(IF t1 = Absent THEN match[m].team1 ELSE t1,
                        IF t2 = Absent THEN match[m].team2 ELSE t2,
                        IF w = Absent THEN match[m].winner ELSE w)
        /\ MatchPut("ORGANISER", m, t1, t2, w)
  \/ \E pr \in CreatePairs, w \in WinnerInputs :
        /\ ValidOutcome(pr[1], pr[2], w)
        /\ ModelCreate(pr[1], pr[2], w)
  \/ \E m \in Matches, w \in WinnerInputs :
        /\ m \in heldMatch
        /\ ValidOutcome(match[m].team1, match[m].team2, w)
        /\ ModelSave(m, w)

SpecValid == Init /\ [][ValidMatchNext]_vars

\* ======================================================== the properties
Stored == {m \in Matches : match[m] # NoMatch}
Took(t) == {m \in Stored : t \in {match[m].team1, match[m].team2}}
Count(S) == Cardinality(S)

\* the step just taken wrote a match and returned normally
CreateOps == {"match_post", "model_create"}
UpdateOps == {"match_put", "model_save"}
Returned(l) == l.status \in {0, 200, 201}
Derived(row) == row.points = (WinPoints * row.wins) + row.draw

\* the match row a creating step adds
Created(m) == match[m] = NoMatch /\ match'[m] # NoMatch
\* an update of match m that keeps team1 and team2
UpdatedSameTeams(m) ==
  /\ last'.op \in UpdateOps /\ Returned(last') /\ ops' = ops + 1
  /\ match[m] # NoMatch
  /\ match'[m].team1 = match[m].team1 /\ match'[m].team2 = match[m].team2
  /\ \A k \in Matches \ {m} : match'[k] = match[k]
  /\ \/ last'.op = "match_put"
     \/ m \in heldMatch /\ heldMatch = {m}

\* C1: after any sequence of creations and updates of valid matches, every
\* team's counters are the ones the stored matches imply
C1_CountersFollowMatches ==
  \A t \in Teams :
    /\ team[t].matches_played = Count(Took(t))
    /\ team[t].wins = Count({m \in Stored : match[m].winner = t})
    /\ team[t].lost = Count({m \in Took(t) : match[m].winner \notin {None, t}})
    /\ team[t].draw = Count({m \in Took(t) : match[m].winner = None})

\* C2: creating a match of distinct teams adds exactly 1 to matches_played of
\* both teams and of their active players, 1 to the winner's wins and the
\* other team's lost, or 1 to both teams' draw, and decreases nothing
C2_CreateAddsExactDelta ==
  [][\A m \in Matches :
       ( /\ last'.op \in CreateOps /\ Returned(last') /\ ops' = ops + 1
         /\ Created(m)
         /\ ValidOutcome(match'[m].team1, match'[m].team2, match'[m].winner) )
       => LET t1 == match'[m].team1
              t2 == match'[m].team2
              w == match'[m].winner
              l == IF w = t1 THEN t2 ELSE t1
          IN /\ \A t \in {t1, t2} :
                  /\ team'[t].matches_played = team[t].matches_played + 1
                  /\ team'[t].wins = team[t].wins + (IF w = t THEN 1 ELSE 0)
                  /\ team'[t].lost =
                       team[t].lost + (IF w # None /\ l = t THEN 1 ELSE 0)
                  /\ team'[t].draw = team[t].draw + (IF w = None THEN 1 ELSE 0)
             /\ \A p \in Players :
                  player[p].is_playing /\ player[p].team \in {t1, t2}
                  => player'[p].matches_played = player[p].matches_played + 1
    ]_vars

\* C3: from zeroed counters, Match(A, B, winner = A) and then its update to
\* winner = null give A.wins = 0, A.draw = 1, A.points = 1, B.lost = 0,
\* B.draw = 1, matches_played = 1 for A, B and the active player P1 of A
C3_RoundTripOnEdit ==
  [][( /\ ops = 1 /\ last.op \in CreateOps /\ Returned(last)
       /\ match[1] = [team1 |-> "A", team2 |-> "B", winner |-> "A"]
       /\ UpdatedSameTeams(1)
       /\ match'[1].winner = None )
     => /\ team'["A"].wins = 0 /\ team'["A"].draw = 1 /\ team'["A"].points = 1
        /\ team'["B"].lost = 0 /\ team'["B"].draw = 1
        /\ team'["A"].matches_played = 1 /\ team'["B"].matches_played = 1
        /\ player'["P1"].matches_played = 1
    ]_vars

\* C4: updating a match created without winner to winner = team1 gives
\* team1.wins = 1, team2.lost = 1 and matches_played = 1 for both teams and
\* for the active players of team1, through the model layer and the endpoint
C4_DrawToWinner ==
  [][\A pr \in CreatePairs :
     ( /\ pr[1] # pr[2]
       /\ ops = 1 /\ last.op \in CreateOps /\ Returned(last)
       /\ match[1] = [team1 |-> pr[1], team2 |-> pr[2], winner |-> None]
       /\ UpdatedSameTeams(1)
       /\ match'[1].winner = pr[1] )
     => /\ team'[pr[1]].wins = 1 /\ team'[pr[2]].lost = 1
        /\ team'[pr[1]].matches_played = 1 /\ team'[pr[2]].matches_played = 1
        /\ \A p \in Players :
             player[p].is_playing /\ player[p].team = pr[1]
             => player'[p].matches_played = 1
    ]_vars

\* C5: re-saving a match with the same teams and the same winner changes no
\* counter of any team or player
C5_ResaveIsIdempotent ==
  [][\A m \in Matches :
       (UpdatedSameTeams(m) /\ match'[m].winner = match[m].winner)
       => team' = team /\ player' = player
    ]_vars

\* C6: an update that keeps team1 and team2 leaves matches_played of both
\* teams and of their active players as it was, whatever the winners are
C6_UpdateKeepsMatchesPlayed ==
  [][\A m \in Matches :
       UpdatedSameTeams(m)
       => /\ \A t \in {match[m].team1, match[m].team2} :
               team'[t].matches_played = team[t].matches_played
          /\ \A p \in Players :
               player[p].is_playing
                 /\ player[p].team \in {match[m].team1, match[m].team2}
               => player'[p].matches_played = player[p].matches_played
    ]_vars

\* C7: for every outcome O, the new-match delta for O applied to zeroed
\* counters and then reverted by the update's revert step leaves
\* matches_played, wins, lost, draw and points of both teams and
\* matches_played of every active player at their original values (zero)
ZeroTeams ==
  [t \in Teams |-> [team[t] EXCEPT !.matches_played = 0, !.wins = 0,
                                    !.lost = 0, !.draw = 0, !.points = 0]]
ZeroPlayers == [p \in Players |-> [player[p] EXCEPT !.matches_played = 0]]

\* the rows after Match(t1, t2, w) is created on zeroed counters (the winner
\* being the very object of its team) and the revert step of an update of
\* that match has run
AppliedThenReverted(t1, t2, w) ==
  LET Z == [team |-> ZeroTeams, player |-> ZeroPlayers, usr |-> usr,
            match |-> [m \in Matches |-> NoMatch],
            heap |-> [r \in Refs |-> IF r \in Teams THEN ZeroTeams[r] ELSE NoObj],
            ok |-> TRUE]
      A == MatchSave(Z, [pk |-> NoPk, team1_id |-> t1, team2_id |-> t2,
                         winner_id |-> w, t1 |-> t1, t2 |-> t2, w |-> w])
      old == A.match[1]
  IN RevertStats(LoadOld(A, old), old, A.player)

C7_RevertInvertsApply ==
  \A pr \in CreatePairs, w \in WinnerInputs :
    ValidOutcome(pr[1], pr[2], w)
    => LET R == AppliedThenReverted(pr[1], pr[2], w)
       IN /\ R.ok
          /\ \A t \in {pr[1], pr[2]} : R.team[t] = ZeroTeams[t]
          /\ \A p \in Players : R.player[p] = ZeroPlayers[p]

\* C8: when points = 2 * wins + draw holds of every team row before a match
\* is created or updated, it holds of every team row after the save
C8_PointsDerivedAfterMatchSave ==
  [][( /\ last'.op \in CreateOps \cup UpdateOps /\ ops' = ops + 1
       /\ \A t \in Teams : Derived(team[t]) )
     => \A t \in Teams : Derived(team'[t])
    ]_vars

\* a match update has completed and left a team with wins and draws
C8_Witness ==
  /\ last.op = "match_put" /\ Returned(last)
  /\ \E t \in Teams :
       team[t].wins > 0 /\ team[t].draw > 0 /\ Derived(team[t])

\* C9: every stored team has points = 2 * wins + draw, whatever team write
\* (a direct save, the team update endpoint) stored it
C9_TeamPointsDerived == \A t \in Teams : Derived(team[t])

\* C10: no stored match has a winner outside {team1, team2, null}
C10_WinnerIsParticipant ==
  \A m \in Stored : match[m].winner \in {match[m].team1, match[m].team2, None}

\* C11: a match save that fails at any step (here: a validation error raised
\* while a team or a player row is saved) leaves the match rows, every team
\* row and every player row as they were before the save started
Failed(l) == l.status \in {1, 500}

C11_MatchSaveAllOrNothing ==
  [][( /\ last'.op \in CreateOps \cup UpdateOps /\ ops' = ops + 1
       /\ Failed(last') )
     => match' = match /\ team' = team /\ player' = player
    ]_vars

\* an update of a stored match has failed after its revert step had run
C11_Witness ==
  /\ last.op = "match_put" /\ Failed(last)
  /\ \E m \in Stored : match[m].winner = None /\ team[match[m].team1].draw = 1

\* C12: matches_played, wins, lost and draw of every team and matches_played
\* of every player are >= 0 in every state match creates and updates reach,
\* also when the revert step meets a counter that is already 0
C12_CountersNonNegative ==
  /\ \A t \in Teams :
       /\ team[t].matches_played >= 0 /\ team[t].wins >= 0
       /\ team[t].lost >= 0 /\ team[t].draw >= 0
  /\ \A p \in Players : player[p].matches_played >= 0

\* the only match ever stored was created with a winner, whose wins counter
\* the create left at 0, and has been updated to a draw: the revert step has
\* decremented a wins counter that was 0
C12_Witness ==
  /\ ops = 2 /\ last.op = "match_put" /\ Returned(last)
  /\ match[1] = [team1 |-> "A", team2 |-> "B", winner |-> None]
  /\ team["A"].matches_played = 2 /\ team["A"].draw = 1
  /\ team["A"].wins = 0 /\ team["B"].wins = 0

\* the profiles of team t with is_playing = true
PlayingOn(t) == {p \in Players : player[p].team = t /\ player[p].is_playing}
PlayerOps == {"player_post", "player_put"}
Rejected(l) == l.status \in {400, 500}

\* C13: whatever player profiles are created and updated (moved to another
\* team, is_playing toggled), no team has more than 11 profiles with
\* is_playing = true
C13_PlayingXICap ==
  \A t \in Teams : Cardinality(PlayingOn(t)) <= PlayingXI

\* the bench player P12 has taken a place in A's XI, the XI is full again and
\* a further write has been rejected
C13_Witness ==
  /\ last.op = "player_put" /\ Rejected(last)
  /\ player["P12"].team = "A" /\ player["P12"].is_playing
  /\ Cardinality(PlayingOn("A")) = PlayingXI

\* C14: on a team with 11 playing profiles, creating another profile with
\* is_playing = true and setting is_playing = true on a profile of the
\* team's bench both fail and leave every player profile unchanged
C14_RosterFullRejected ==
  [][\A p \in RosterInputs, t \in {"A", "B"} :
       Cardinality(PlayingOn(t)) = PlayingXI
       => /\ ( /\ player[p].team = None
               /\ PlayerPost("ORGANISER", p, t, "true") )
             => Rejected(last') /\ player' = player
          /\ \A k \in {Absent, t} :
               ( /\ player[p].team = t /\ ~player[p].is_playing
                 /\ PlayerPut("ORGANISER", FALSE, p, k, "true") )
               => Rejected(last') /\ player' = player
    ]_vars

\* the creation of a twelfth playing profile on the full team A has failed
C14_Witness ==
  /\ last.op = "player_post" /\ last.status = 500
  /\ player["P13"].team = None
  /\ Cardinality(PlayingOn("A")) = PlayingXI

\* C15: on a team with exactly 11 playing profiles, writing one of those 11
\* again (is_playing left as it is) succeeds
C15_ResaveAtCapSucceeds ==
  [][\A p \in RosterInputs, k \in {Absent, "true"} :
       ( /\ player[p].team # None /\ player[p].is_playing
         /\ Cardinality(PlayingOn(player[p].team)) = PlayingXI
         /\ PlayerPut("ORGANISER", FALSE, p, Absent, k) )
       => Returned(last')
    ]_vars

\* the teams user u is captain of
CaptainOf(u) == {t \in Teams : team[t].captain = u}
CaptainWrites == {"team_post", "team_put", "captain_save"}

\* C16: assigning as captain a user whose role is not CAPTAIN fails, on team
\* creation, on team update and on a direct save, and changes no team and no
\* user; every captain of a team has role CAPTAIN
C16_CaptainMustBeCaptain ==
  [][/\ \A c \in Users, t \in Teams :
          ( /\ usr[c] # "CAPTAIN"
            /\ \/ TeamPost("ORGANISER", c)
               \/ team[t] # NoTeam /\ TeamPut("ORGANISER", t, CaptainData(c))
               \/ HeldCaptainSave(t, c) )
          => /\ Rejected(last') \/ Failed(last')
             /\ team' = team /\ usr' = usr
     /\ \A t \in Teams :
          team'[t].captain # None => usr'[team'[t].captain] = "CAPTAIN"
    ]_vars

\* no team has a captain and a direct captain assignment has failed: the
\* user assigned was not a CAPTAIN
C16_Witness ==
  /\ last.op = "captain_save" /\ Failed(last)
  /\ \A t \in Teams : team[t] # NoTeam /\ team[t].captain = None

C18_FormerCaptainDemoted ==
  [][( /\ last'.op \in {"team_put", "captain_save"} /\ ops' = ops + 1
       /\ Returned(last') )
     => \A t \in Teams :
          team[t].captain # None /\ usr[team[t].captain] = "CAPTAIN"
          => IF team'[t].captain = team[t].captain
             THEN usr'[team[t].captain] = "CAPTAIN"
             ELSE usr'[team[t].captain] = "PLAYER"
    ]_vars

\* U2 has replaced U1 as captain of team A and U1 is a PLAYER
C18_Witness ==
  /\ last.op = "team_put" /\ Returned(last)
  /\ team["A"].captain = "U2" /\ usr["U2"] = "CAPTAIN"
  /\ usr["U1"] = "PLAYER"

\* C19: deleting a team makes its captain a PLAYER and changes no other
\* user's role; deleting a team without captain changes no role
C19_DeleteDemotesCaptain ==
  [][\A t \in Teams :
       (team[t] # NoTeam /\ TeamDelete("ORGANISER", t))
       => /\ team[t].captain # None => usr'[team[t].captain] = "PLAYER"
          /\ \A u \in Users \ {team[t].captain} : usr'[u] = usr[u]
    ]_vars

\* team A is deleted and its captain U1 is a PLAYER, the teamless captain U2
\* still a CAPTAIN
C19_Witness ==
  /\ last.op = "team_delete" /\ Returned(last)
  /\ team["A"] = NoTeam /\ usr["U1"] = "PLAYER" /\ usr["U2"] = "CAPTAIN"

\* C20: an organiser creating a team with a CAPTAIN user who already
\* captains another team gets 201, and the user ends up captain of the new
\* team only
C20_CreateTakesOverCaptain ==
  [][\A c \in CaptainUsers :
       ( /\ usr[c] = "CAPTAIN" /\ CaptainOf(c) # {}
         /\ \E t \in Teams : team[t] = NoTeam
         /\ TeamPost("ORGANISER", c) )
       => /\ last'.status = 201
          /\ {t \in Teams : team'[t].captain = c} = {NewTeamId(Machine(HeldHeap))}
    ]_vars

C22_MatchWritesNeedRole ==
  [][\A role \in RoleEnum \ {"ADMIN", "ORGANISER"}, m \in Matches,
        t1 \in {"A", "B"}, t2 \in {"A", "B"}, w \in {None, "A", "B"} :
       ( \/ MatchPost(role, t1, t2, w)
         \/ MatchPut(role, m, Absent, Absent, w)
         \/ MatchDelete(role, m) )
       => /\ last'.status = 403
          /\ match' = match /\ team' = team /\ player' = player
    ]_vars

\* a deletion has been refused while a match is stored
C22_Witness ==
  /\ last.op = "match_delete" /\ last.status = 403
  /\ Stored # {}

\* no request is between its read and its write
Quiescent == \A q \in Procs : pending[q] = NoReq

\* C23: two match saves that share a team are serialized: once both have
\* committed, under every interleaving, the shared team's counters reflect
\* both saves (matches_played, lost and draw are those of the stored matches)
C23_ConcurrentSavesSerialized ==
  Quiescent
  => \A t \in Teams :
       /\ team[t].matches_played = Count(Took(t))
       /\ team[t].lost = Count({m \in Took(t) : match[m].winner \notin {None, t}})
       /\ team[t].draw = Count({m \in Took(t) : match[m].winner = None})

\* C24: the playing-XI check and the write that follows it are atomic with
\* respect to other writers: the write of a profile with is_playing = true
\* never takes its team above 11 playing profiles
C24_XICheckAtomicWithWrite ==
  [][\A q \in Procs :
       (PlayerPutWrite(q) /\ pending[q].o.is_playing)
       => Cardinality({p \in Players :
                         /\ player'[p].team = pending[q].o.team
                         /\ player'[p].is_playing}) <= PlayingXI
    ]_vars

\* C25: a match creation or update changes nothing of a player profile but
\* matches_played: total_runs, wickets, is_playing, team and user of every
\* profile are as before
C25_OnlyMatchesPlayedOnPlayers ==
  [][( /\ last'.op \in CreateOps \cup UpdateOps /\ ops' = ops + 1 )
     => \A p \in Players :
          player'[p] =
            [player[p] EXCEPT !.matches_played = player'[p].matches_played]
    ]_vars

\* a match update has been saved and P1, with its runs and wickets, has
\* played
C25_Witness ==
  /\ last.op = "match_put" /\ Returned(last)
  /\ player["P1"].matches_played > 0
  /\ player["P1"].total_runs = 100 /\ player["P1"].wickets = 10

\* C28: on an update the players decremented are those with is_playing = true
\* on the previous teams when the update runs: a player activated since the
\* match was saved is decremented (not below 0) and incremented again, a
\* player deactivated since then is left alone
C28_RevertUsesCurrentRoster ==
  [][\A m \in Matches, t1 \in {Absent, "A"}, w \in {Absent, None} :
       ( /\ match[m] # NoMatch
         /\ MatchPut("ORGANISER", m, t1, Absent, w)
         /\ Returned(last') )
       => \A p \in Players :
            LET on(t) == player[p].is_playing /\ player[p].team = t
                mp == player[p].matches_played
                reverted ==
                  IF on(match[m].team1) \/ on(match[m].team2)
                  THEN (IF mp > 0 THEN mp - 1 ELSE 0) ELSE mp
            IN player'[p].matches_played =
                 reverted + (IF on(match'[m].team1) THEN 1 ELSE 0)
                          + (IF on(match'[m].team2) THEN 1 ELSE 0)
    ]_vars

\* P13 joined team B's XI after the match of B was stored and the match has
\* been updated since: P13 was decremented at 0 and incremented to 1
C28_Witness ==
  /\ ops = 3 /\ last.op = "match_put" /\ Returned(last)
  /\ player["P13"].team = "B" /\ player["P13"].is_playing
  /\ player["P13"].matches_played = 1
  /\ match[1] # NoMatch /\ match[1].team1 = "B"

\* the teams of the match rows a step wrote (of every stored match when the
\* step rewrote a row with the values it had)
TouchedTeams ==
  {t \in Teams :
     \E m \in Matches :
       /\ match'[m] # match[m] \/ match' = match
       /\ t \in {match[m].team1, match[m].team2,
                  match'[m].team1, match'[m].team2}}

\* C26: a match creation or update changes nothing besides the match row,
\* the counters of the previous and new team1 / team2 and matches_played of
\* their active players: every other team, every inactive player, every
\* team's captain and every user's role are as before
C26_MatchSaveFrame ==
  [][( /\ last'.op \in CreateOps \cup UpdateOps /\ ops' = ops + 1 )
     => /\ \A t \in Teams \ TouchedTeams : team'[t] = team[t]
        /\ \A p \in Players :
             ~(player[p].is_playing /\ player[p].team \in TouchedTeams)
             => player'[p] = player[p]
        /\ \A t \in Teams : team'[t].captain = team[t].captain
        /\ usr' = usr
    ]_vars

\* what match row r contributes to the counters of team t
Plays(r, t) == IF t \in {r.team1, r.team2} THEN 1 ELSE 0
Wins(r, t) == IF r.winner = t THEN 1 ELSE 0
Lost(r, t) ==
  IF t \in {r.team1, r.team2} /\ r.winner \notin {None, t} THEN 1 ELSE 0
Draw(r, t) == IF t \in {r.team1, r.team2} /\ r.winner = None THEN 1 ELSE 0

\* an update of match m, and of no other row, that returned normally
Updated(m) ==
  /\ last'.op \in UpdateOps /\ Returned(last') /\ ops' = ops + 1
  /\ match[m] # NoMatch /\ match'[m] # match[m]
  /\ \A k \in Matches \ {m} : match'[k] = match[k]

\* C27: an update that changes team1 or team2 reverts the previous outcome on
\* the previous teams and applies the new one to the new teams: a team dropped
\* from the match loses 1 matches_played and its previous contribution, a team
\* added gains 1 matches_played and its new contribution, a team present
\* before and after keeps its matches_played
C27_TeamChangeMovesStats ==
  [][\A m \in Matches :
       ( /\ Updated(m)
         /\ {match'[m].team1, match'[m].team2} # {match[m].team1, match[m].team2} )
       => \A t \in Teams :
            LET before == Plays(match[m], t) = 1
                after == Plays(match'[m], t) = 1
            IN /\ (before /\ ~after)
                  => /\ team'[t].matches_played = team[t].matches_played - 1
                     /\ team'[t].wins = team[t].wins - Wins(match[m], t)
                     /\ team'[t].lost = team[t].lost - Lost(match[m], t)
                     /\ team'[t].draw = team[t].draw - Draw(match[m], t)
               /\ (after /\ ~before)
                  => /\ team'[t].matches_played = team[t].matches_played + 1
                     /\ team'[t].wins = team[t].wins + Wins(match'[m], t)
                     /\ team'[t].lost = team[t].lost + Lost(match'[m], t)
                     /\ team'[t].draw = team[t].draw + Draw(match'[m], t)
               /\ (before /\ after)
                  => team'[t].matches_played = team[t].matches_played
    ]_vars

\* counter c after the revert of r0's contribution d0 (not below 0) and the
\* application of the new contribution d1
Moved(c, d0, d1) == (IF c - d0 > 0 THEN c - d0 ELSE 0) + d1

\* C29: within one match save every counter change computed for a team row is
\* in the row when the save commits, whichever in-memory copy of the row it
\* was computed on: each counter is the previous one, less the previous
\* match's contribution (not below 0), plus the new match's contribution
C29_NoChangeLostInSave ==
  [][\A m \in Matches :
       ( /\ \/ ( /\ last'.op \in CreateOps /\ Returned(last')
                 /\ ops' = ops + 1 /\ Created(m) )
            \/ Updated(m)
         /\ ValidOutcome(match'[m].team1, match'[m].team2, match'[m].winner) )
       => \A t \in Teams :
            /\ team'[t].matches_played =
                 Moved(team[t].matches_played, Plays(match[m], t),
                       Plays(match'[m], t))
            /\ team'[t].wins =
                 Moved(team[t].wins, Wins(match[m], t), Wins(match'[m], t))
            /\ team'[t].lost =
                 Moved(team[t].lost, Lost(match[m], t), Lost(match'[m], t))
            /\ team'[t].draw =
                 Moved(team[t].draw, Draw(match[m], t), Draw(match'[m], t))
    ]_vars

\* C30: creating a match succeeds when one of its teams has exactly 11
\* playing profiles, and adds 1 to matches_played of every playing profile of
\* both teams: re-saving a playing profile inside the match save is not
\* rejected by the playing-XI check
C30_MatchWithFullXISucceeds ==
  [][\A pr \in RosterPairs, w \in {None, "B"} :
       ( /\ \E t \in {pr[1], pr[2]} : Cardinality(PlayingOn(t)) = PlayingXI
         /\ \E m \in Matches : match[m] = NoMatch
         /\ MatchPost("ORGANISER", pr[1], pr[2], w) )
       => /\ last'.status = 201
          /\ \A p \in PlayingOn(pr[1]) \cup PlayingOn(pr[2]) :
               player'[p].matches_played = player[p].matches_played + 1
    ]_vars
====
